---- MODULE Spec2Model ----
(***************************************************************************)
(* The game-loading and session-lifecycle orchestrator (GameSelector), the *)
(* Bundle Loader, the Validator and the Session Tracker (SessionManager)   *)
(* as a state machine.  Every suspension point of the code (an await, a    *)
(* timer, a DOM event, a click) ends one action and begins another.        *)
(***************************************************************************)
EXTENDS Integers, Sequences, FiniteSets, Bags, TLC

\* ------------------------------------------------------------------ bounds
MaxInFlight == 2     \* handleGameAction invocations suspended at the same time
MaxSessions == 2     \* sessions started in one page session

\* --------------------------------------------------------------- constants
HistoryCap == 200    \* SessionManager.saveToHistory keeps the last 200

\* --------------------------------------------------------------- universes
Games == {"trivia", "puzzle"}
Actions == {"start", "pause", "resume", "restart", "end"}
Loads == {1, 2}      \* loadGame invocations (two are enough to overlap)

\* The capability sets a bundle-provided handle may have (each operation is
\* callable-if-present); the synthetic handle always has all five.
HandleShapes == {Actions, Actions \ {"restart"}, {"start", "pause", "resume"}, {}}
UnknownShape == {"unknown"}

NoGame == "none"
NoHandle == [kind |-> "none", game |-> NoGame, by |-> 0, at |-> 0]
WindowHandle(g) == [kind |-> "window", game |-> g, by |-> 0, at |-> 0]
InstancesHandle(g) == [kind |-> "instances", game |-> g, by |-> 0, at |-> 0]
\* The synthetic handle is a new object at every fallback: the one made by
\* invocation i at its discovery number n.
MockHandle(g, i, n) == [kind |-> "mock", game |-> g, by |-> i, at |-> n]

NoSession == [sessionId |-> 0, gameId |-> NoGame, status |-> "none"]

VARIABLES
    selectedGameData,     \* window.selectedGameData: NoGame or the hub's game
    bundleShape,          \* the methods the bundles' own handles implement
    registry,             \* GameRegistry.games: the registered game names
    menuGames,            \* the games the rendered menu has a button for
    ui,                   \* what container.innerHTML currently shows
    currentGame,          \* GameSelector.currentGame (a game name or NoGame)
    currentGameInstance,  \* GameSelector.currentGameInstance
    winCurrent,           \* window.currentGameInstance
    winGame,              \* winGame[g]: window[g + 'Game'] is set
    gameInstances,        \* gameInstances[g]: window.gameInstances[g] is set
    lpc, lgame,           \* per loadGame invocation: position and game
    ltimer,               \* per loadGame invocation: the 5 s fallback timer
    lerr,                 \* per loadGame invocation: the game its load error names
    scripts,              \* the manifest scripts appended to document.head
    controls,             \* control surfaces appended to document.body
    buttons,              \* buttons[a]: the button of action a is displayed
    currentSession,       \* SessionManager.currentSession
    history,              \* localStorage gaming_history_<user>
    sessCount,            \* sessions created so far
    inflight,             \* the suspended handleGameAction invocations (a bag)
    posted,               \* the HTTP POSTs issued by the latest step
    rules,                \* Game.rules of a descriptor: what each rule's validate does
    validation,           \* what validateGame(descriptor) settled with
    callResult,           \* the latest call of a method of a synthetic handle
    gamesMap,             \* GameRegistry.games: the Map's entries in insertion order
    descriptors,          \* descriptors constructed so far
    sm,                   \* SessionManager.currentSession, all its fields
    lsSession,            \* localStorage gaming_session_<userId>
    lsHistory,            \* localStorage gaming_history_<userId>
    created,              \* sessions startSession has created
    now,                  \* Date.now(), in clock ticks
    ops,                  \* tracker operations and clock ticks so far
    stats,                \* what the latest getUserStats() returned
    requested,            \* the manifest URLs GameLoader.loadGame has requested
    tabs                  \* per tab: its SessionManager where endSession stands

loadVars == <<selectedGameData, registry, menuGames, ui, currentGame,
              currentGameInstance, winCurrent, lpc, lgame, ltimer, lerr,
              scripts, controls>>
bundleVars == <<bundleShape, winGame, gameInstances>>
trackerVars == <<currentSession, history, sessCount>>
dispatchVars == <<inflight>>
outVars == <<posted>>
\* The state of the components when they are exercised on their own.
validatorVars == <<rules, validation>>
registryVars == <<gamesMap, descriptors>>
sessionVars == <<sm, lsSession, lsHistory, created, now, ops>>
observedVars == <<stats, requested, tabs>>
unitVars == <<validatorVars, callResult, registryVars, sessionVars, observedVars>>
vars == <<loadVars, bundleVars, buttons, trackerVars, dispatchVars, outVars,
          unitVars>>

\* No request is issued in this step.
Silent == posted' = <<>>

\* ------------------------------------------------------- handle discovery
FindGameInstance_InstancesFirst(g, i, n) ==
    IF gameInstances[g] THEN InstancesHandle(g)
    ELSE IF winGame[g] THEN WindowHandle(g)
    ELSE MockHandle(g, i, n)

\* GameSelector.findGameInstance, called by invocation i for the n-th time.
FindGameInstance(g, i, n) ==
    IF winGame[g] THEN WindowHandle(g)
    ELSE IF gameInstances[g] THEN InstancesHandle(g)
    ELSE MockHandle(g, i, n)

\* typeof handle[m] === 'function'
Callable(h, m) ==
    CASE h.kind = "mock" -> TRUE
      [] h.kind = "none" -> FALSE
      [] OTHER -> m \in bundleShape

\* How a call of a method of a handle can end: the synthetic handle's methods
\* only log, a bundle's own method may throw or reject.
Outcomes(kind) == IF kind = "mock" THEN {"ok"} ELSE {"ok", "throw"}

\* ------------------------------------------------------------------- Init
\* No descriptor under validation, no validation settled, no method called.
NoValidation == [settled |-> "pending", valid |-> FALSE, errors |-> <<>>, invoked |-> {}]
NoCall == [build |-> "none", method |-> "none", outcome |-> "none"]
\* null: no current session, no stored item.
Null == [sessionId |-> 0]

\* getUserStats has not been called.
NoStats == [total |-> -1]

\* The tabs of one user, and a tab whose tracker has no session.
Tabs == {1, 2}
NoTab == [pc |-> "idle", session |-> Null, read |-> <<>>]

UnitInit ==
    /\ rules = <<>>
    /\ validation = NoValidation
    /\ callResult = NoCall
    /\ gamesMap = <<>>
    /\ descriptors = 0
    /\ sm = Null
    /\ lsSession = Null
    /\ lsHistory = <<>>
    /\ created = 0
    /\ now = 0
    /\ ops = 0
    /\ stats = NoStats
    /\ requested = <<>>
    /\ tabs = [t \in Tabs |-> NoTab]

Init ==
    /\ UnitInit
    /\ selectedGameData \in Games \cup {NoGame}
    /\ bundleShape = UnknownShape
    /\ registry = {}
    /\ menuGames = {}
    /\ ui = "none"
    /\ currentGame = NoGame
    /\ currentGameInstance = NoHandle
    /\ winCurrent = NoHandle
    /\ winGame = [g \in Games |-> FALSE]
    /\ gameInstances = [g \in Games |-> FALSE]
    /\ lpc = [i \in Loads |-> "idle"]
    /\ lgame = [i \in Loads |-> NoGame]
    /\ ltimer = [i \in Loads |-> "unset"]
    /\ lerr = [i \in Loads |-> NoGame]
    /\ scripts = <<>>
    /\ controls = 0
    /\ buttons = [a \in Actions |-> FALSE]
    /\ currentSession = NoSession
    /\ history = <<>>
    /\ sessCount = 0
    /\ inflight = EmptyBag
    /\ posted = <<>>

\* ------------------------------------------------------------ orchestrator
\* A resolved wait's continuation runs before any timer, DOM event or click.
Quiescent == \A i \in Loads : lpc[i] # "Resumed"

Constructor_RendersMenuFirst ==
    /\ ui = "none"
    /\ IF selectedGameData # NoGame
       THEN /\ registry' = registry \cup {selectedGameData}
            /\ currentGame' = selectedGameData
            /\ lgame' = [lgame EXCEPT ![1] = selectedGameData]
            /\ lpc' = [lpc EXCEPT ![1] = "Validating"]
            /\ ui' = "initial"
       ELSE /\ ui' = "initial"
            /\ UNCHANGED <<registry, currentGame, lgame, lpc>>
    /\ Silent
    /\ UNCHANGED <<unitVars, scripts, selectedGameData, menuGames, currentGameInstance, winCurrent,
                   ltimer, lerr, controls, bundleVars, buttons, trackerVars,
                   dispatchVars>>

\* new GameSelector(containerId): the hub flow (loadGameFromHub,
\* registerAndTrackHubGame) registers the synthesized descriptor, stores it as
\* current and enters loadGame; otherwise the initial UI is rendered.
Constructor ==
    /\ ui = "none"
    /\ IF selectedGameData # NoGame
       THEN /\ registry' = registry \cup {selectedGameData}
            /\ currentGame' = selectedGameData
            /\ lgame' = [lgame EXCEPT ![1] = selectedGameData]
            /\ lpc' = [lpc EXCEPT ![1] = "Validating"]
            /\ ui' = "host"
       ELSE /\ ui' = "initial"
            /\ UNCHANGED <<registry, currentGame, lgame, lpc>>
    /\ Silent
    /\ UNCHANGED <<unitVars, scripts, selectedGameData, menuGames, currentGameInstance, winCurrent,
                   ltimer, lerr, controls, bundleVars, buttons, trackerVars,
                   dispatchVars>>

\* A plugin bundle self-registers (GameRegistry.registerGame).  Once the menu
\* can no longer be rendered nothing reads the registry, so later
\* registrations are not followed.
registerGame(g) ==
    /\ g \notin registry
    /\ ui \in {"none", "initial", "menu"}
    /\ Quiescent
    /\ registry' = registry \cup {g}
    /\ Silent
    /\ UNCHANGED <<unitVars, scripts, selectedGameData, menuGames, ui, currentGame, currentGameInstance,
                   winCurrent, lpc, lgame, ltimer, lerr, controls, bundleVars,
                   buttons, trackerVars, dispatchVars>>

\* Click on "Select a Game": the menu gets one button per registered game.
showGameOptions ==
    /\ ui = "initial"
    /\ Quiescent
    /\ ui' = "menu"
    /\ menuGames' = registry
    /\ Silent
    /\ UNCHANGED <<unitVars, scripts, selectedGameData, registry, currentGame, currentGameInstance,
                   winCurrent, lpc, lgame, ltimer, lerr, controls, bundleVars,
                   buttons, trackerVars, dispatchVars>>

\* Click on "Back".
renderInitialUI ==
    /\ ui = "menu"
    /\ Quiescent
    /\ ui' = "initial"
    /\ menuGames' = {}
    /\ Silent
    /\ UNCHANGED <<unitVars, scripts, selectedGameData, registry, currentGame, currentGameInstance,
                   winCurrent, lpc, lgame, ltimer, lerr, controls, bundleVars,
                   buttons, trackerVars, dispatchVars>>

\* Click on a game button of the menu: loadGame(game), the i-th invocation,
\* runs up to its first await, the validation.
loadGame(g, i) ==
    /\ ui = "menu" /\ g \in menuGames
    /\ lpc[i] = "idle" /\ \A j \in Loads : j < i => lpc[j] # "idle"
    /\ Quiescent
    /\ lgame' = [lgame EXCEPT ![i] = g]
    /\ lpc' = [lpc EXCEPT ![i] = "Validating"]
    /\ Silent
    /\ UNCHANGED <<unitVars, scripts, selectedGameData, registry, menuGames, ui, currentGame,
                   currentGameInstance, winCurrent, ltimer, lerr, controls,
                   bundleVars, buttons, trackerVars, dispatchVars>>

\* validateGame resolved with valid = false: showValidationError and return.
ValidationFails(i) ==
    /\ lpc[i] = "Validating"
    /\ Quiescent
    /\ ui' = "validationError"
    /\ menuGames' = {}
    /\ lpc' = [lpc EXCEPT ![i] = "ValidationFailed"]
    /\ Silent
    /\ UNCHANGED <<unitVars, scripts, selectedGameData, registry, currentGame, currentGameInstance,
                   winCurrent, lgame, ltimer, lerr, controls, bundleVars,
                   buttons, trackerVars, dispatchVars>>

\* loadGame publishing nothing before the script is injected.
ValidationPasses_PublishesLater(i) ==
    /\ lpc[i] = "Validating"
    /\ Quiescent
    /\ currentGame' = lgame[i]
    /\ ui' = "loading"
    /\ menuGames' = {}
    /\ lpc' = [lpc EXCEPT ![i] = "Loading"]
    /\ scripts' = Append(scripts, lgame[i])
    /\ Silent
    /\ UNCHANGED <<unitVars, selectedGameData, registry, lgame, ltimer, lerr, controls,
                   currentGameInstance, winCurrent, bundleVars, buttons, trackerVars,
                   dispatchVars>>

\* validateGame resolved with valid = true: store the descriptor, discover and
\* publish the initial handle, show the loading UI (with the mount point
\* #root), inject the manifest script.
ValidationPasses(i) ==
    /\ lpc[i] = "Validating"
    /\ Quiescent
    /\ currentGame' = lgame[i]
    /\ currentGameInstance' = FindGameInstance(lgame[i], i, 1)
    /\ winCurrent' = FindGameInstance(lgame[i], i, 1)
    /\ ui' = "loading"
    /\ menuGames' = {}
    /\ lpc' = [lpc EXCEPT ![i] = "Loading"]
    /\ scripts' = Append(scripts, lgame[i])
    /\ Silent
    /\ UNCHANGED <<unitVars, selectedGameData, registry, lgame, ltimer, lerr, controls,
                   bundleVars, buttons, trackerVars, dispatchVars>>

\* GameLoader.loadGame: script.onload resolves; waitForGameScripts registers
\* the listener and arms the fallback timer.
ScriptOnload(i) ==
    /\ lpc[i] = "Loading"
    /\ Quiescent
    /\ lpc' = [lpc EXCEPT ![i] = "WaitingForReady"]
    /\ ltimer' = [ltimer EXCEPT ![i] = "armed"]
    /\ Silent
    /\ UNCHANGED <<unitVars, scripts, selectedGameData, registry, menuGames, ui, currentGame,
                   currentGameInstance, winCurrent, lgame, lerr, controls,
                   bundleVars, buttons, trackerVars, dispatchVars>>

ScriptOnerror_Resolves(i) ==
    /\ lpc[i] = "Loading"
    /\ Quiescent
    /\ lpc' = [lpc EXCEPT ![i] = "WaitingForReady"]
    /\ ltimer' = [ltimer EXCEPT ![i] = "armed"]
    /\ Silent
    /\ UNCHANGED <<unitVars, scripts, selectedGameData, registry, menuGames, ui, currentGame,
                   currentGameInstance, winCurrent, lgame, lerr, controls,
                   bundleVars, buttons, trackerVars, dispatchVars>>

\* script.onerror rejects with Error(`Failed to load <name>`); loadGame's
\* catch renders the load-failure UI (showLoadError) and the invocation ends.
ScriptOnerror(i) ==
    /\ lpc[i] = "Loading"
    /\ Quiescent
    /\ lpc' = [lpc EXCEPT ![i] = "LoadFailed"]
    /\ lerr' = [lerr EXCEPT ![i] = lgame[i]]
    /\ ui' = "loadError"
    /\ menuGames' = {}
    /\ Silent
    /\ UNCHANGED <<unitVars, scripts, selectedGameData, registry, currentGame, currentGameInstance,
                   winCurrent, lgame, ltimer, controls, bundleVars, buttons,
                   trackerVars, dispatchVars>>

\* The manifest script of game g has run in the page.
BundleRunning(g) ==
    \E i \in Loads :
        /\ lgame[i] = g
        /\ lpc[i] \in {"WaitingForReady", "Resumed", "Grace", "Ready", "NoControls"}

\* A discovery for game g is still to come; what a bundle exposes after the
\* last discovery is read by nothing and is not followed.
DiscoveryPending(g) ==
    \E i \in Loads :
        lgame[i] = g /\ lpc[i] \in {"Validating", "Loading", "WaitingForReady"}

\* The bundle attaches its own handle at window[g + 'Game'] ...
BundleExposesOnWindow(g) ==
    /\ BundleRunning(g) /\ DiscoveryPending(g) /\ ~winGame[g]
    /\ Quiescent
    /\ winGame' = [winGame EXCEPT ![g] = TRUE]
    /\ \E s \in HandleShapes :
          bundleShape' = IF bundleShape = UnknownShape THEN s ELSE bundleShape
    /\ Silent
    /\ UNCHANGED <<unitVars, loadVars, gameInstances, buttons, trackerVars, dispatchVars>>

\* ... or at window.gameInstances[g].
BundleExposesInInstances(g) ==
    /\ BundleRunning(g) /\ DiscoveryPending(g) /\ ~gameInstances[g]
    /\ Quiescent
    /\ gameInstances' = [gameInstances EXCEPT ![g] = TRUE]
    /\ \E s \in HandleShapes :
          bundleShape' = IF bundleShape = UnknownShape THEN s ELSE bundleShape
    /\ Silent
    /\ UNCHANGED <<unitVars, loadVars, winGame, buttons, trackerVars, dispatchVars>>

\* The bundle dispatches its readiness event on window: every listener
\* registered for it (handleScriptsLoaded) resolves its wait.
ReadyEvent(g) ==
    /\ BundleRunning(g)
    /\ Quiescent
    /\ \E i \in Loads : lpc[i] = "WaitingForReady" /\ lgame[i] = g
    /\ lpc' = [i \in Loads |->
                 IF lpc[i] = "WaitingForReady" /\ lgame[i] = g THEN "Resumed"
                 ELSE lpc[i]]
    /\ Silent
    /\ UNCHANGED <<unitVars, scripts, selectedGameData, registry, menuGames, ui, currentGame,
                   currentGameInstance, winCurrent, lgame, ltimer, lerr,
                   controls, bundleVars, buttons, trackerVars, dispatchVars>>

\* waitForGameScripts' fallback: after 5 s, resolve unless the page's global
\* object has an own property `<name>-scripts-loaded-fired` (flagSet).
FallbackTimeout(i) ==
    /\ lpc[i] = "WaitingForReady" /\ ltimer[i] = "armed"
    /\ Quiescent
    /\ ltimer' = [ltimer EXCEPT ![i] = "fired"]
    /\ \E flagSet \in BOOLEAN :
          lpc' = [lpc EXCEPT ![i] = IF flagSet THEN @ ELSE "Resumed"]
    /\ Silent
    /\ UNCHANGED <<unitVars, scripts, selectedGameData, registry, menuGames, ui, currentGame,
                   currentGameInstance, winCurrent, lgame, lerr, controls,
                   bundleVars, buttons, trackerVars, dispatchVars>>

\* loadGame keeping the initial handle after the wait.
AfterReady_KeepsInitial(i) ==
    /\ lpc[i] = "Resumed"
    /\ lpc' = [lpc EXCEPT ![i] = "Grace"]
    /\ ltimer' = [ltimer EXCEPT ![i] = "unset"]
    /\ Silent
    /\ UNCHANGED <<unitVars, scripts, selectedGameData, registry, menuGames, ui, currentGame, lgame,
                   currentGameInstance, winCurrent, lerr, controls, bundleVars, buttons,
                   trackerVars, dispatchVars>>

\* loadGame after the wait: re-run discovery, replace the handle if it differs,
\* start the mount polling (waitForReactMount) and the 2 s grace timer.
AfterReady(i) ==
    /\ lpc[i] = "Resumed"
    /\ IF FindGameInstance(lgame[i], i, 2) # currentGameInstance
       THEN /\ currentGameInstance' = FindGameInstance(lgame[i], i, 2)
            /\ winCurrent' = FindGameInstance(lgame[i], i, 2)
       ELSE UNCHANGED <<currentGameInstance, winCurrent>>
    /\ lpc' = [lpc EXCEPT ![i] = "Grace"]
    /\ ltimer' = [ltimer EXCEPT ![i] = "unset"]
    /\ Silent
    /\ UNCHANGED <<unitVars, scripts, selectedGameData, registry, menuGames, ui, currentGame, lgame,
                   lerr, controls, bundleVars, buttons, trackerVars,
                   dispatchVars>>

\* addGameControls: display is 'none' for pause-btn and resume-btn only.
InitialDisplay == [a \in Actions |-> a \notin {"pause", "resume"}]

\* The 2 s grace timer fires: addGameControls appends the five buttons unless
\* the mount point #root (part of the loading UI) is gone.  The buttons of a
\* second surface repeat the ids of the first, which getElementById returns.
addGameControls(i) ==
    /\ lpc[i] = "Grace"
    /\ Quiescent
    /\ IF ui = "loading"
       THEN /\ controls' = controls + 1
            /\ buttons' = IF controls = 0 THEN InitialDisplay ELSE buttons
            /\ lpc' = [lpc EXCEPT ![i] = "Ready"]
       ELSE /\ lpc' = [lpc EXCEPT ![i] = "NoControls"]
            /\ UNCHANGED <<controls, buttons>>
    /\ Silent
    /\ UNCHANGED <<unitVars, scripts, selectedGameData, registry, menuGames, ui, currentGame,
                   currentGameInstance, winCurrent, lgame, ltimer, lerr,
                   bundleVars, trackerVars, dispatchVars>>

\* ---------------------------------------------------------- Session Tracker
\* SessionManager.startSession: the new current session.
startSession(gameId) ==
    [sessionId |-> sessCount + 1, gameId |-> gameId, status |-> "active"]

\* SessionManager.pauseSession / resumeSession: no-ops without a session.
pauseSession(s) == IF s = NoSession THEN s ELSE [s EXCEPT !.status = "paused"]

resumeSession(s) == IF s = NoSession THEN s ELSE [s EXCEPT !.status = "active"]

\* saveToHistory refusing the new entry once the history is full.
saveToHistory_KeepsOldest(h, s) ==
    IF Len(h) + 1 > HistoryCap THEN h ELSE Append(h, s)

\* SessionManager.saveToHistory: append, then drop the oldest beyond the cap.
saveToHistory(h, s) ==
    IF Len(h) + 1 > HistoryCap
    THEN SubSeq(Append(h, s), Len(h) + 2 - HistoryCap, Len(h) + 1)
    ELSE Append(h, s)

\* SessionManager.endSession(status): finalize, POST, archive, clear.
endSession(status) ==
    IF currentSession = NoSession
    THEN /\ UNCHANGED <<currentSession, history>>
         /\ posted' = <<>>
    ELSE /\ history' = saveToHistory(history, [currentSession EXCEPT !.status = status])
         /\ currentSession' = NoSession
         /\ posted' = <<"session">>

\* ------------------------------------------------------- control dispatch
updateControlButtons_PausedKeepsPause(state) ==
    IF controls = 0 THEN buttons
    ELSE CASE state = "started" -> [a \in Actions |-> a \in {"pause", "restart", "end"}]
           [] state = "paused" -> [buttons EXCEPT !["resume"] = TRUE]
           [] state = "resumed" -> [buttons EXCEPT !["pause"] = TRUE, !["resume"] = FALSE]
           [] state = "ended" -> [a \in Actions |-> a = "start"]
           [] OTHER -> buttons

\* GameSelector.updateControlButtons(state): the display of the five buttons.
updateControlButtons(state) ==
    IF controls = 0 THEN buttons
    ELSE CASE state = "started" -> [a \in Actions |-> a \in {"pause", "restart", "end"}]
           [] state = "paused" -> [buttons EXCEPT !["pause"] = FALSE, !["resume"] = TRUE]
           [] state = "resumed" -> [buttons EXCEPT !["pause"] = TRUE, !["resume"] = FALSE]
           [] state = "ended" -> [a \in Actions |-> a = "start"]
           [] OTHER -> buttons

\* A button of action a can be clicked: it is displayed on the first surface,
\* or a later surface (whose display never changes) shows it.
Visible(a) ==
    /\ controls >= 1
    /\ buttons[a] \/ (controls >= 2 /\ InitialDisplay[a])

\* A suspended handleGameAction: the await it is at, and what it awaits (a
\* POST that settles or hangs, a method of a synthetic or a bundle's handle).
Await(at, on) == [at |-> at, on |-> on]
Awaits ==
    {Await("post", on) : on \in {"settles", "hangs"}}
    \cup {Await(at, on) : at \in {"start", "end", "restart", "restartEnd", "restartStart"},
                          on \in {"mock", "real"}}

CalleeKind(h) == IF h.kind = "mock" THEN "mock" ELSE "real"
CanSuspend == BagCardinality(inflight) < MaxInFlight
Suspended(t) == BagIn(t, inflight)
Add(t) == inflight' = inflight (+) SetToBag({t})
Drop(t) == inflight' = inflight (-) SetToBag({t})
Move(t, u) == inflight' = (inflight (-) SetToBag({t})) (+) SetToBag({u})

\* handleGameAction('start') up to `await fetch(...)`: startSession, then the
\* game_play_start POST, which may settle or never complete.
DispatchStart ==
    /\ Visible("start") /\ currentGameInstance # NoHandle
    /\ CanSuspend /\ sessCount < MaxSessions
    /\ Quiescent
    /\ currentSession' = startSession(IF currentGame = NoGame THEN "unknown" ELSE currentGame)
    /\ sessCount' = sessCount + 1
    /\ posted' = <<"game_play_start">>
    /\ \E on \in {"settles", "hangs"} : Add(Await("post", on))
    /\ UNCHANGED <<unitVars, loadVars, bundleVars, buttons, history>>

\* The POST settled (2xx, non-2xx or a network error, all only logged): call
\* the handle's start if it is callable.
StartPostSettles(resp) ==
    /\ Suspended(Await("post", "settles"))
    /\ Quiescent
    /\ IF Callable(currentGameInstance, "start")
       THEN Move(Await("post", "settles"), Await("start", CalleeKind(currentGameInstance)))
       ELSE Drop(Await("post", "settles"))
    /\ Silent
    /\ UNCHANGED <<unitVars, loadVars, bundleVars, buttons, trackerVars>>

\* `await this.currentGameInstance.start()` settled with r: the buttons go to
\* started whether it resolved or threw.
StartSettles(t, r) ==
    /\ Suspended(t) /\ t.at = "start" /\ r \in Outcomes(t.on)
    /\ Quiescent
    /\ buttons' = updateControlButtons("started")
    /\ Drop(t)
    /\ Silent
    /\ UNCHANGED <<unitVars, loadVars, bundleVars, trackerVars>>

\* handleGameAction('pause'): pauseSession, then the handle's pause, which
\* ends with r; the buttons change only if pause is callable and returns.
DispatchPause(r) ==
    /\ Visible("pause") /\ currentGameInstance # NoHandle
    /\ r \in Outcomes(CalleeKind(currentGameInstance))
    /\ Quiescent
    /\ currentSession' = pauseSession(currentSession)
    /\ buttons' = IF Callable(currentGameInstance, "pause") /\ r = "ok"
                  THEN updateControlButtons("paused") ELSE buttons
    /\ Silent
    /\ UNCHANGED <<unitVars, loadVars, bundleVars, history, sessCount, dispatchVars>>

\* handleGameAction('resume'): resumeSession, then the handle's resume.
DispatchResume(r) ==
    /\ Visible("resume") /\ currentGameInstance # NoHandle
    /\ r \in Outcomes(CalleeKind(currentGameInstance))
    /\ Quiescent
    /\ currentSession' = resumeSession(currentSession)
    /\ buttons' = IF Callable(currentGameInstance, "resume") /\ r = "ok"
                  THEN updateControlButtons("resumed") ELSE buttons
    /\ Silent
    /\ UNCHANGED <<unitVars, loadVars, bundleVars, history, sessCount, dispatchVars>>

\* handleGameAction('restart') up to its first await: the handle's restart if
\* callable; otherwise, if start is callable, end (if callable) and then start.
DispatchRestart ==
    /\ Visible("restart") /\ currentGameInstance # NoHandle
    /\ CanSuspend
    /\ Quiescent
    /\ CASE Callable(currentGameInstance, "restart") ->
              Add(Await("restart", CalleeKind(currentGameInstance)))
         [] ~Callable(currentGameInstance, "restart")
              /\ Callable(currentGameInstance, "start")
              /\ Callable(currentGameInstance, "end") ->
              Add(Await("restartEnd", CalleeKind(currentGameInstance)))
         [] ~Callable(currentGameInstance, "restart")
              /\ Callable(currentGameInstance, "start")
              /\ ~Callable(currentGameInstance, "end") ->
              Add(Await("restartStart", CalleeKind(currentGameInstance)))
         [] OTHER -> UNCHANGED dispatchVars
    /\ Silent
    /\ UNCHANGED <<unitVars, loadVars, bundleVars, buttons, trackerVars>>

\* `await this.currentGameInstance.restart()` settled with r: started if it
\* resolved, nothing if it threw.
RestartSettles(t, r) ==
    /\ Suspended(t) /\ t.at = "restart" /\ r \in Outcomes(t.on)
    /\ Quiescent
    /\ buttons' = IF r = "ok" THEN updateControlButtons("started") ELSE buttons
    /\ Drop(t)
    /\ Silent
    /\ UNCHANGED <<unitVars, loadVars, bundleVars, trackerVars>>

\* The fallback's `await this.currentGameInstance.end()` settled with r: if it
\* resolved, start is called (without a typeof test: a handle that has lost
\* start throws a TypeError into the catch).
RestartEndSettles(t, r) ==
    /\ Suspended(t) /\ t.at = "restartEnd" /\ r \in Outcomes(t.on)
    /\ Quiescent
    /\ IF r = "ok" /\ Callable(currentGameInstance, "start")
       THEN Move(t, Await("restartStart", CalleeKind(currentGameInstance)))
       ELSE Drop(t)
    /\ Silent
    /\ UNCHANGED <<unitVars, loadVars, bundleVars, buttons, trackerVars>>

\* The fallback's `await this.currentGameInstance.start()` settled with r.
RestartStartSettles(t, r) ==
    /\ Suspended(t) /\ t.at = "restartStart" /\ r \in Outcomes(t.on)
    /\ Quiescent
    /\ buttons' = IF r = "ok" THEN updateControlButtons("started") ELSE buttons
    /\ Drop(t)
    /\ Silent
    /\ UNCHANGED <<unitVars, loadVars, bundleVars, trackerVars>>

\* handleGameAction('end') up to its await: endSession('completed'), then the
\* handle's end if it is callable.
DispatchEnd ==
    /\ Visible("end") /\ currentGameInstance # NoHandle
    /\ CanSuspend
    /\ Quiescent
    /\ endSession("completed")
    /\ IF Callable(currentGameInstance, "end")
       THEN Add(Await("end", CalleeKind(currentGameInstance)))
       ELSE UNCHANGED dispatchVars
    /\ UNCHANGED <<unitVars, loadVars, bundleVars, buttons, sessCount>>

\* `await this.currentGameInstance.end()` settled with r: the buttons go to
\* ended whether it resolved or threw.
EndSettles(t, r) ==
    /\ Suspended(t) /\ t.at = "end" /\ r \in Outcomes(t.on)
    /\ Quiescent
    /\ buttons' = updateControlButtons("ended")
    /\ Drop(t)
    /\ Silent
    /\ UNCHANGED <<unitVars, loadVars, bundleVars, trackerVars>>

\* ------------------------------------------------------------------- Next
Results == {"ok", "throw"}

Next ==
    \/ Constructor
    \/ \E g \in Games : registerGame(g)
    \/ showGameOptions
    \/ renderInitialUI
    \/ \E g \in Games : loadGame(g, 1)
    \/ \E i \in Loads : ValidationFails(i)
    \/ \E i \in Loads : ValidationPasses(i)
    \/ \E i \in Loads : ScriptOnload(i)
    \/ \E i \in Loads : ScriptOnerror(i)
    \/ \E g \in Games : BundleExposesOnWindow(g)
    \/ \E g \in Games : BundleExposesInInstances(g)
    \/ \E g \in Games : ReadyEvent(g)
    \/ \E i \in Loads : FallbackTimeout(i)
    \/ \E i \in Loads : AfterReady(i)
    \/ \E i \in Loads : addGameControls(i)
    \/ DispatchStart
    \/ \E resp \in {"ok", "non2xx", "networkError"} : StartPostSettles(resp)
    \/ \E t \in Awaits, r \in Results : StartSettles(t, r)
    \/ \E r \in Results : DispatchPause(r)
    \/ \E r \in Results : DispatchResume(r)
    \/ DispatchRestart
    \/ \E t \in Awaits, r \in Results : RestartSettles(t, r)
    \/ \E t \in Awaits, r \in Results : RestartEndSettles(t, r)
    \/ \E t \in Awaits, r \in Results : RestartStartSettles(t, r)
    \/ DispatchEnd
    \/ \E t \in Awaits, r \in Results : EndSettles(t, r)

Spec == Init /\ [][Next]_vars

\* What the page and the handles are bound to do once they can: a settled
\* validation, script load, readiness wait and timer run their continuation, a
\* POST that settles and a handle's method deliver their result.  A click, a
\* bundle's own behaviour and a POST that hangs are not bound to happen.
Progress ==
    \/ \E i \in Loads : ValidationFails(i) \/ ValidationPasses(i)
    \/ \E i \in Loads : ScriptOnload(i) \/ ScriptOnerror(i)
    \/ \E i \in Loads : FallbackTimeout(i) \/ AfterReady(i) \/ addGameControls(i)
    \/ \E resp \in {"ok", "non2xx", "networkError"} : StartPostSettles(resp)
    \/ \E t \in Awaits, r \in Results :
          \/ StartSettles(t, r) \/ RestartSettles(t, r) \/ RestartEndSettles(t, r)
          \/ RestartStartSettles(t, r) \/ EndSettles(t, r)

FairSpec == Spec /\ WF_vars(Progress)

\* ============================================================== components
\* The two builds of the orchestrator in the repository.
SelectorBuild == "unnamed/part_010"
SdkBuild == "core-gaming-sdk/GameSelector.ts"
Builds == {SelectorBuild, SdkBuild}

\* How a request can end: a 2xx response, another response, no response.
NetOutcomes == {"ok", "non2xx", "fails"}

\* ---------------------------------------------------------------- Validator
MaxRules == 4        \* rules attached to one descriptor

\* What a rule's validate does: resolve true, resolve false, throw (reject
\* with) an Error, throw (reject with) null or undefined.
RuleOutcomes == {"pass", "fail", "throw", "throwNothing"}

\* BrowserCompatibilityRule.validate: Promise, fetch and script elements exist.
BrowserCompatibilityRule(supported) == IF supported THEN "pass" ELSE "fail"

\* NetworkConnectivityRule.validate.  part_010 returns true without a request.
\* GameSelector.ts sends a no-cors HEAD request (any response passes); if that
\* request fails, fallbackConnectivityCheck sends a second one and returns
\* response.ok, or true if the second fails too.
NetworkConnectivityRule(build, head, fallback) ==
    IF build = SelectorBuild THEN "pass"
    ELSE IF head # "fails" THEN "pass"
    ELSE IF fallback = "non2xx" THEN "fail"
    ELSE "pass"

\* GameResourceRule.validate: true on every path.
GameResourceRule == "pass"

\* The error entries: a failing rule's getErrorMessage(), `Exception in
\* <rule>: <message>`, and validateGame's `Validation exception: <message>`.
RuleError(k, entry) == [rule |-> k, entry |-> entry]

\* The loop of Game.validateRules from rule k on.  The catch block reads
\* error.message: on a thrown null or undefined that read throws out of the
\* loop and validateRules rejects.
RECURSIVE RuleLoop(_, _, _, _)
RuleLoop(rs, k, errors, invoked) ==
    IF k > Len(rs)
    THEN [settled |-> "resolved", valid |-> errors = <<>>, errors |-> errors,
          invoked |-> invoked]
    ELSE CASE rs[k] = "pass" -> RuleLoop(rs, k + 1, errors, invoked \cup {k})
           [] rs[k] = "fail" ->
                RuleLoop(rs, k + 1, Append(errors, RuleError(k, "message")),
                         invoked \cup {k})
           [] rs[k] = "throw" ->
                RuleLoop(rs, k + 1, Append(errors, RuleError(k, "exception")),
                         invoked \cup {k})
           [] OTHER ->
                [settled |-> "rejected", valid |-> FALSE, errors |-> errors,
                 invoked |-> invoked \cup {k}]

validateRules_FirstErrorOnly(rs) ==
    LET v == RuleLoop(rs, 1, <<>>, {})
    IN  [v EXCEPT !.errors = IF v.errors = <<>> THEN <<>> ELSE <<Head(v.errors)>>]

\* Game.validateRules.
validateRules(rs) == RuleLoop(rs, 1, <<>>, {})

\* new Game(name, baseUrl, emoji): the three default rules, in the page and
\* network the descriptor will be validated in.
Game(build, supported, head, fallback) ==
    /\ rules = <<>> /\ validation = NoValidation
    /\ rules' = <<BrowserCompatibilityRule(supported),
                  NetworkConnectivityRule(build, head, fallback),
                  GameResourceRule>>
    /\ Silent
    /\ UNCHANGED <<validation, callResult, registryVars, sessionVars, observedVars, loadVars, bundleVars, buttons,
                   trackerVars, dispatchVars>>

\* Game.addRule(rule).
addRule(o) ==
    /\ Len(rules) < MaxRules /\ validation = NoValidation
    /\ rules' = Append(rules, o)
    /\ Silent
    /\ UNCHANGED <<validation, callResult, registryVars, sessionVars, observedVars, loadVars, bundleVars, buttons,
                   trackerVars, dispatchVars>>

\* GameValidator.validateGame(game): the result of validateRules, or one
\* `Validation exception` entry if validateRules rejected.
validateGame ==
    /\ validation = NoValidation
    /\ validation' =
          LET v == validateRules(rules)
          IN  IF v.settled = "resolved" THEN v
              ELSE [settled |-> "resolved", valid |-> FALSE,
                    errors |-> <<RuleError(0, "validation exception")>>,
                    invoked |-> v.invoked]
    /\ Silent
    /\ UNCHANGED <<rules, callResult, registryVars, sessionVars, observedVars, loadVars, bundleVars, buttons,
                   trackerVars, dispatchVars>>

ValidatorNext ==
    \/ \E build \in Builds, supported \in BOOLEAN, head \in NetOutcomes,
          fallback \in NetOutcomes : Game(build, supported, head, fallback)
    \/ \E o \in RuleOutcomes : addRule(o)
    \/ validateGame

ValidatorSpec == Init /\ [][ValidatorNext]_vars

\* ------------------------------------------------------- synthetic handle
\* A method of the mock instance is called.  The methods log; start of
\* GameSelector.ts first awaits the game_play_start POST, outside any try.
MockCall(build, m, net) ==
    IF build = SdkBuild /\ m = "start" /\ net = "fails" THEN "throw" ELSE "ok"

\* A bundle binds its handle to one of the two globals discovery reads.
BundleSetsGlobal(g, onWindow) ==
    /\ IF onWindow
       THEN /\ ~winGame[g]
            /\ winGame' = [winGame EXCEPT ![g] = TRUE]
            /\ UNCHANGED gameInstances
       ELSE /\ ~gameInstances[g]
            /\ gameInstances' = [gameInstances EXCEPT ![g] = TRUE]
            /\ UNCHANGED winGame
    /\ Silent
    /\ UNCHANGED <<unitVars, loadVars, bundleShape, buttons, trackerVars,
                   dispatchVars>>

\* findGameInstance(game) of either build; the result is kept as the handle.
Discover(g) ==
    /\ currentGameInstance' = FindGameInstance(g, 1, 1)
    /\ Silent
    /\ UNCHANGED <<unitVars, selectedGameData, registry, menuGames, ui,
                   currentGame, winCurrent, lpc, lgame, ltimer, lerr, scripts,
                   controls, bundleVars, buttons, trackerVars, dispatchVars>>

\* A method of the synthetic handle is called in some state of the network.
CallMock(build, m, net) ==
    /\ currentGameInstance.kind = "mock"
    /\ Callable(currentGameInstance, m)
    /\ callResult' = [build |-> build, method |-> m,
                      outcome |-> MockCall(build, m, net)]
    /\ Silent
    /\ UNCHANGED <<validatorVars, registryVars, sessionVars, observedVars, loadVars, bundleVars, buttons, trackerVars,
                   dispatchVars>>

HandleNext ==
    \/ \E g \in Games, onWindow \in BOOLEAN : BundleSetsGlobal(g, onWindow)
    \/ \E g \in Games : Discover(g)
    \/ \E build \in Builds, m \in Actions, net \in NetOutcomes :
          CallMock(build, m, net)

HandleSpec == Init /\ [][HandleNext]_vars


\* ----------------------------------------------------------------- Registry
MaxDescriptors == 4  \* descriptors constructed for one registry

Undefined == 0

\* The position of key name in the Map's entries (0: no such key).
MapIndex(name) ==
    IF \E k \in 1..Len(gamesMap) : gamesMap[k].name = name
    THEN CHOOSE k \in 1..Len(gamesMap) : gamesMap[k].name = name
    ELSE 0

MapSet_Appends(name, inst) == Append(gamesMap, [name |-> name, inst |-> inst])

\* Map.prototype.set: the value of an existing key is replaced in place, a new
\* key is added at the end.
MapSet(name, inst) ==
    IF MapIndex(name) # 0
    THEN [gamesMap EXCEPT ![MapIndex(name)] = [name |-> name, inst |-> inst]]
    ELSE Append(gamesMap, [name |-> name, inst |-> inst])

\* Map.prototype.delete.
MapDelete(name) ==
    SelectSeq(gamesMap, LAMBDA e : e.name # name)

\* GameRegistry.getGame / getAllGames / getGameCount.
getGame(name) ==
    IF MapIndex(name) # 0 THEN gamesMap[MapIndex(name)].inst ELSE Undefined

getAllGames == gamesMap

getGameCount == Len(gamesMap)

\* GameRegistry.registerGame(game), game a newly constructed descriptor named
\* name.
RegistryRegisters(name) ==
    /\ descriptors < MaxDescriptors
    /\ descriptors' = descriptors + 1
    /\ gamesMap' = MapSet(name, descriptors + 1)
    /\ Silent
    /\ UNCHANGED <<validatorVars, callResult, sessionVars, observedVars, loadVars, bundleVars,
                   buttons, trackerVars, dispatchVars>>

\* GameRegistry.unregisterGame(gameName).
RegistryUnregisters(name) ==
    /\ gamesMap' = MapDelete(name)
    /\ Silent
    /\ UNCHANGED <<validatorVars, callResult, descriptors, sessionVars, observedVars, loadVars,
                   bundleVars, buttons, trackerVars, dispatchVars>>

RegistryNext ==
    \/ \E name \in Games : RegistryRegisters(name)
    \/ \E name \in Games : RegistryUnregisters(name)

RegistrySpec == Init /\ [][RegistryNext]_vars

\* ---------------------------------------------- Session Tracker, in full
MaxOps == 5          \* tracker operations and clock ticks in one run

DayMs == 86400000    \* 24 * 60 * 60 * 1000

\* Date.now() at clock tick t: a tick is half a second.
Ms(t) == t * 500

Points == {10, 5}
EndStatuses == {"completed", "abandoned"}

Event(type, data) == [type |-> type, timestamp |-> Ms(now), data |-> data]

Max(a, b) == IF a >= b THEN a ELSE b

\* The frame of a tracker operation: it is one more operation, and nothing
\* outside the tracker changes.
TrackerOnly ==
    /\ ops < MaxOps
    /\ ops' = ops + 1
    /\ UNCHANGED <<validatorVars, callResult, registryVars, observedVars, loadVars,
                   bundleVars, buttons, trackerVars, dispatchVars>>

\* SessionManager.startSession(gameId): a new current session (replacing any
\* current one), persisted.
TrackerStart(gameId) ==
    /\ created' = created + 1
    /\ sm' = [sessionId |-> created + 1, gameId |-> gameId,
              startTime |-> Ms(now), endTime |-> -1, status |-> "active",
              score |-> 0, maxScore |-> 0, streak |-> 0, attempts |-> 0,
              correctAnswers |-> 0, duration |-> 0,
              events |-> <<Event("start", 0)>>]
    /\ lsSession' = sm'
    /\ Silent
    /\ UNCHANGED <<lsHistory, now>>
    /\ TrackerOnly

\* updateScore counting an attempt only for a correct answer.
TrackerUpdateScore_CountsOnlyCorrect(points, isCorrect) ==
    /\ IF sm = Null
       THEN UNCHANGED <<sm, lsSession>>
       ELSE /\ sm' = [sm EXCEPT
                        !.score = @ + points,
                        !.maxScore = Max(@, sm.score + points),
                        !.streak = IF isCorrect THEN @ + 1 ELSE 0,
                        !.correctAnswers = IF isCorrect THEN @ + 1 ELSE @,
                        !.attempts = IF isCorrect THEN @ + 1 ELSE @,
                        !.events = Append(@, Event(IF isCorrect THEN "correct"
                                                   ELSE "incorrect", points))]
            /\ lsSession' = sm'
    /\ Silent
    /\ UNCHANGED <<lsHistory, created, now>>
    /\ TrackerOnly

TrackerUpdateScore_KeepsStreak(points, isCorrect) ==
    /\ IF sm = Null
       THEN UNCHANGED <<sm, lsSession>>
       ELSE /\ sm' = [sm EXCEPT
                        !.score = @ + points,
                        !.maxScore = Max(@, sm.score + points),
                        !.streak = @ + 1,
                        !.correctAnswers = IF isCorrect THEN @ + 1 ELSE @,
                        !.attempts = @ + 1,
                        !.events = Append(@, Event(IF isCorrect THEN "correct"
                                                   ELSE "incorrect", points))]
            /\ lsSession' = sm'
    /\ Silent
    /\ UNCHANGED <<lsHistory, created, now>>
    /\ TrackerOnly

\* SessionManager.updateScore(points, isCorrect).
TrackerUpdateScore(points, isCorrect) ==
    /\ IF sm = Null
       THEN UNCHANGED <<sm, lsSession>>
       ELSE /\ sm' = [sm EXCEPT
                        !.score = @ + points,
                        !.maxScore = Max(@, sm.score + points),
                        !.streak = IF isCorrect THEN @ + 1 ELSE 0,
                        !.correctAnswers = IF isCorrect THEN @ + 1 ELSE @,
                        !.attempts = @ + 1,
                        !.events = Append(@, Event(IF isCorrect THEN "correct"
                                                   ELSE "incorrect", points))]
            /\ lsSession' = sm'
    /\ Silent
    /\ UNCHANGED <<lsHistory, created, now>>
    /\ TrackerOnly

\* SessionManager.pauseSession(): whatever the status of the current session.
TrackerPause ==
    /\ IF sm = Null
       THEN UNCHANGED <<sm, lsSession>>
       ELSE /\ sm' = [sm EXCEPT !.status = "paused",
                                !.events = Append(@, Event("pause", 0))]
            /\ lsSession' = sm'
    /\ Silent
    /\ UNCHANGED <<lsHistory, created, now>>
    /\ TrackerOnly

\* SessionManager.resumeSession().
TrackerResume ==
    /\ IF sm = Null
       THEN UNCHANGED <<sm, lsSession>>
       ELSE /\ sm' = [sm EXCEPT !.status = "active",
                                !.events = Append(@, Event("resume", 0))]
            /\ lsSession' = sm'
    /\ Silent
    /\ UNCHANGED <<lsHistory, created, now>>
    /\ TrackerOnly

\* The session endSession(status) finalizes.
Finalized(s, status) ==
    [s EXCEPT !.endTime = Ms(now),
              !.status = status,
              !.duration = (Ms(now) - s.startTime) \div 1000,
              !.events = Append(@, Event("end", status))]

\* A sendToServer() suspended at `await fetch('/api/sessions', ...)`.
SessionPost == [at |-> "sessionPost", on |-> "fetch"]

\* The frame of endSession and of sendToServer's continuation.
TrackerAndPostsOnly ==
    /\ ops < MaxOps
    /\ ops' = ops + 1
    /\ UNCHANGED <<validatorVars, callResult, registryVars, observedVars, loadVars,
                   bundleVars, buttons, trackerVars>>

\* endSession calling sendToServer after it has cleared the session: nothing
\* is sent (sendToServer returns when there is no current session).
TrackerEnd_PostsAfterClearing(status) ==
    /\ IF sm = Null
       THEN UNCHANGED <<sm, lsHistory>>
       ELSE /\ lsHistory' = saveToHistory(lsHistory, Finalized(sm, status))
            /\ sm' = Null
    /\ Silent
    /\ UNCHANGED <<lsSession, created, now, inflight>>
    /\ TrackerAndPostsOnly

\* SessionManager.endSession(status): finalize, POST (sendToServer, up to its
\* await), append to the stored history (saveToHistory), clear the current
\* session.  The stored in-flight session is not touched.
TrackerEnd(status) ==
    /\ IF sm = Null
       THEN /\ UNCHANGED <<sm, lsHistory, inflight>>
            /\ Silent
       ELSE /\ posted' = <<Finalized(sm, status)>>
            /\ inflight' = inflight (+) SetToBag({SessionPost})
            /\ lsHistory' = saveToHistory(lsHistory, Finalized(sm, status))
            /\ sm' = Null
    /\ UNCHANGED <<lsSession, created, now>>
    /\ TrackerAndPostsOnly

\* The POST of sendToServer settles (a response, or a rejection that the
\* catch logs): the function returns.
SendToServerSettles(net) ==
    /\ BagIn(SessionPost, inflight)
    /\ inflight' = inflight (-) SetToBag({SessionPost})
    /\ Silent
    /\ UNCHANGED <<sm, lsSession, lsHistory, created, now>>
    /\ TrackerAndPostsOnly

\* loadPersistedSession without the age test.
TrackerConstruct_AdoptsAnyAge ==
    /\ sm' = lsSession
    /\ Silent
    /\ UNCHANGED <<lsSession, lsHistory, created, now>>
    /\ TrackerOnly

\* new SessionManager(userId) on a later page load: loadPersistedSession
\* adopts the stored in-flight session if it started less than 24 h ago.
TrackerConstruct ==
    /\ sm' = IF lsSession # Null /\ Ms(now) - lsSession.startTime < DayMs
             THEN lsSession ELSE Null
    /\ Silent
    /\ UNCHANGED <<lsSession, lsHistory, created, now>>
    /\ TrackerOnly

\* Time passes: half a second, or half a second less than 24 hours.
ClockJumps == {1, DayMs \div Ms(1) - 1}

ClockTick(d) ==
    /\ now' = now + d
    /\ Silent
    /\ UNCHANGED <<sm, lsSession, lsHistory, created>>
    /\ TrackerOnly

TrackerNext ==
    \/ \E g \in Games : TrackerStart(g)
    \/ \E points \in Points, isCorrect \in BOOLEAN : TrackerUpdateScore(points, isCorrect)
    \/ TrackerPause
    \/ TrackerResume
    \/ \E status \in EndStatuses : TrackerEnd(status)
    \/ \E net \in NetOutcomes : SendToServerSettles(net)
    \/ TrackerConstruct
    \/ \E d \in ClockJumps : ClockTick(d)

TrackerSpec == Init /\ [][TrackerNext]_vars

\* One session in play: startSession, then updateScore (points won or lost),
\* pauseSession and resumeSession in any order.
ScorePoints == {10, 5, -5}

ScoreNext ==
    \/ created = 0 /\ TrackerStart("trivia")
    \/ \E points \in ScorePoints, isCorrect \in BOOLEAN :
          sm # Null /\ TrackerUpdateScore(points, isCorrect)
    \/ sm # Null /\ TrackerPause
    \/ sm # Null /\ TrackerResume

ScoreSpec == Init /\ [][ScoreNext]_vars

\* ------------------------------------------------- history over many sessions
\* One tracker that starts a session when it has none and ends it, over and
\* over: the sequence of endSession calls that fills the stored history.
MaxEnded == 205      \* sessions started in one run of the history component

HistoryOnly ==
    UNCHANGED <<unitVars, loadVars, bundleVars, buttons, dispatchVars>>

HistoryStart(gameId) ==
    /\ currentSession = NoSession
    /\ sessCount < MaxEnded
    /\ currentSession' = startSession(gameId)
    /\ sessCount' = sessCount + 1
    /\ UNCHANGED <<history, posted>>
    /\ HistoryOnly

HistoryEnd(status) ==
    /\ endSession(status)
    /\ UNCHANGED sessCount
    /\ HistoryOnly

HistoryNext ==
    \/ HistoryStart("trivia")
    \/ HistoryEnd("completed")

HistorySpec == Init /\ [][HistoryNext]_vars

\* ------------------------------------------------------ statistics (getUserStats)
MaxStored == 6       \* entries of the stored history getUserStats is run on

\* What an entry of the stored history can hold where getUserStats reads it:
\* status, score, streak and duration as the session was saved.
StoredKinds ==
    { [status |-> "completed", score |-> 10, streak |-> 1, duration |-> 2],
      [status |-> "abandoned", score |-> 20, streak |-> 0, duration |-> 0],
      [status |-> "completed", score |-> 30, streak |-> 3, duration |-> 5],
      [status |-> "paused", score |-> 20, streak |-> 2, duration |-> 1] }

StoredSession(id, k) ==
    [sessionId |-> id, gameId |-> "trivia", startTime |-> 0,
     endTime |-> k.duration * 1000, status |-> k.status, score |-> k.score,
     maxScore |-> k.score, streak |-> k.streak, attempts |-> 0,
     correctAnswers |-> 0, duration |-> k.duration, events |-> <<>>]

\* history.filter(h => h.status === status).length
RECURSIVE CountStatus(_, _)
CountStatus(h, status) ==
    IF h = <<>> THEN 0
    ELSE (IF Head(h).status = status THEN 1 ELSE 0) + CountStatus(Tail(h), status)

\* history.reduce((s, h) => s + (h.score || 0), 0), from accumulator acc.
RECURSIVE ReduceScore(_, _)
ReduceScore(h, acc) ==
    IF h = <<>> THEN acc ELSE ReduceScore(Tail(h), acc + Head(h).score)

\* history.reduce((b, h) => Math.max(b, h.streak || 0), 0)
RECURSIVE ReduceStreak(_, _)
ReduceStreak(h, acc) ==
    IF h = <<>> THEN acc ELSE ReduceStreak(Tail(h), Max(acc, Head(h).streak))

\* history.reduce((t, h) => t + (h.duration || 0), 0)
RECURSIVE ReduceDuration(_, _)
ReduceDuration(h, acc) ==
    IF h = <<>> THEN acc ELSE ReduceDuration(Tail(h), acc + Head(h).duration)

\* Array.prototype.reverse
RECURSIVE Reverse(_)
Reverse(q) == IF q = <<>> THEN <<>> ELSE Append(Reverse(Tail(q)), Head(q))

\* Array.prototype.slice(-n)
SliceLast(q, n) == SubSeq(q, Max(1, Len(q) - n + 1), Len(q))

\* The quotient num / den of a JavaScript division, kept exact.
Ratio(num, den) == [num |-> num, den |-> den]

getUserStats_RecentOldestFirst(h) ==
    [total |-> Len(h),
     completed |-> CountStatus(h, "completed"),
     abandoned |-> CountStatus(h, "abandoned"),
     paused |-> CountStatus(h, "paused"),
     totalScore |-> ReduceScore(h, 0),
     avgScore |-> IF Len(h) # 0 THEN Ratio(ReduceScore(h, 0), Len(h)) ELSE Ratio(0, 1),
     bestStreak |-> ReduceStreak(h, 0),
     totalPlayTime |-> ReduceDuration(h, 0),
     recent |-> SliceLast(h, 5)]

\* SessionManager.getUserStats() on the stored history h.
getUserStats(h) ==
    [total |-> Len(h),
     completed |-> CountStatus(h, "completed"),
     abandoned |-> CountStatus(h, "abandoned"),
     paused |-> CountStatus(h, "paused"),
     totalScore |-> ReduceScore(h, 0),
     avgScore |-> IF Len(h) # 0 THEN Ratio(ReduceScore(h, 0), Len(h)) ELSE Ratio(0, 1),
     bestStreak |-> ReduceStreak(h, 0),
     totalPlayTime |-> ReduceDuration(h, 0),
     recent |-> Reverse(SliceLast(h, 5))]

StatsOnly ==
    UNCHANGED <<validatorVars, callResult, registryVars, requested, tabs, loadVars,
                bundleVars, buttons, trackerVars, dispatchVars>>

\* One more finished session is in the stored history (saveToHistory).
StoreFinished(k) ==
    /\ Len(lsHistory) < MaxStored
    /\ lsHistory' = saveToHistory(lsHistory, StoredSession(Len(lsHistory) + 1, k))
    /\ Silent
    /\ UNCHANGED <<sm, lsSession, created, now, ops, stats>>
    /\ StatsOnly

\* A call of getUserStats(): it reads the stored history and changes nothing.
CallGetUserStats ==
    /\ stats' = getUserStats(lsHistory)
    /\ Silent
    /\ UNCHANGED sessionVars
    /\ StatsOnly

StatsNext ==
    \/ \E k \in StoredKinds : StoreFinished(k)
    \/ CallGetUserStats

StatsSpec == Init /\ [][StatsNext]_vars

\* -------------------------------------------------------------- Bundle Loader
\* URLs are kept as their path segments and the value of the query's t.
S3BaseUrl == <<"https://si-gaming-fantasy.s3.amazonaws.com">>
ManifestFile == "load-app-scripts.js"

\* The descriptor a plugin bundle registers: new TriviaGame(baseUrl).
PluginGame(name) == [name |-> name, baseUrl |-> S3BaseUrl]

\* The metadata a hub supplies: a name, or only an id.
HubData == { [name |-> "trivia", id |-> "t-1"], [name |-> "", id |-> "puzzle"] }

\* GameSelector.createGameFromHubData(gameData).
createGameFromHubData(gameData) ==
    LET gameName == IF gameData.name # "" THEN gameData.name ELSE gameData.id
    IN  [name |-> gameName, baseUrl |-> Append(S3BaseUrl, gameName)]

Descriptors ==
    {PluginGame(g) : g \in Games} \cup {createGameFromHubData(d) : d \in HubData}

\* `${this.s3BaseUrl}/${game.getName()}/load-app-scripts.js?t=${Date.now()}`
ManifestUrl(game, t) ==
    [path |-> S3BaseUrl \o <<game.name, ManifestFile>>, t |-> t]

\* GameLoader.loadGame(game, container): build the URL and append the script
\* element; the promise settles with the script's onload or onerror.
LoaderLoad(game) ==
    /\ ops < MaxOps
    /\ ops' = ops + 1
    /\ requested' = Append(requested, ManifestUrl(game, Ms(now)))
    /\ scripts' = Append(scripts, game.name)
    /\ Silent
    /\ UNCHANGED <<validatorVars, callResult, registryVars, sm, lsSession,
                   lsHistory, created, now, stats, tabs, selectedGameData, registry,
                   menuGames, ui, currentGame, currentGameInstance, winCurrent,
                   lpc, lgame, ltimer, lerr, controls, bundleVars, buttons,
                   trackerVars, dispatchVars>>

LoaderNext ==
    \/ \E game \in Descriptors : LoaderLoad(game)
    \/ \E d \in ClockJumps : ClockTick(d)

LoaderSpec == Init /\ [][LoaderNext]_vars

\* ------------------------------------------- two tabs of one user (one storage)
\* Each tab has its own SessionManager; gaming_session_<userId> and
\* gaming_history_<userId> are shared.  A tab runs its own code without
\* interruption, but nothing orders one tab's storage accesses against the
\* other's: between a tab's getItem and its setItem the other tab may write.
TabsOnly ==
    UNCHANGED <<validatorVars, callResult, registryVars, stats, requested, sm,
                ops, loadVars, bundleVars, buttons, trackerVars, dispatchVars>>

\* startSession in tab t.
TabStart(t, gameId) ==
    /\ tabs[t].pc = "idle"
    /\ created' = created + 1
    /\ LET s == [sessionId |-> created + 1, gameId |-> gameId,
                 startTime |-> Ms(now), endTime |-> -1, status |-> "active",
                 score |-> 0, maxScore |-> 0, streak |-> 0, attempts |-> 0,
                 correctAnswers |-> 0, duration |-> 0,
                 events |-> <<Event("start", 0)>>]
       IN  /\ tabs' = [tabs EXCEPT ![t] = [pc |-> "active", session |-> s, read |-> <<>>]]
           /\ lsSession' = s
    /\ Silent
    /\ UNCHANGED <<lsHistory, now>>
    /\ TabsOnly

\* endSession(status) in tab t up to loadHistory() of saveToHistory: the
\* session is finalized and posted, the stored history is read.
TabEndReads(t, status) ==
    /\ tabs[t].pc = "active"
    /\ tabs' = [tabs EXCEPT ![t] = [pc |-> "read",
                                    session |-> Finalized(tabs[t].session, status),
                                    read |-> lsHistory]]
    /\ posted' = <<Finalized(tabs[t].session, status)>>
    /\ UNCHANGED <<lsSession, lsHistory, created, now>>
    /\ TabsOnly

\* saveToHistory writing back the history of the moment of the write.
TabEndWrites_ReadsAgain(t) ==
    /\ tabs[t].pc = "read"
    /\ lsHistory' = saveToHistory(lsHistory, tabs[t].session)
    /\ tabs' = [tabs EXCEPT ![t] = [pc |-> "done", session |-> Null, read |-> <<>>]]
    /\ Silent
    /\ UNCHANGED <<lsSession, created, now>>
    /\ TabsOnly

\* The rest of endSession in tab t: push onto the array that was read, drop
\* the oldest beyond the cap, setItem, and clear the current session.
TabEndWrites(t) ==
    /\ tabs[t].pc = "read"
    /\ lsHistory' = saveToHistory(tabs[t].read, tabs[t].session)
    /\ tabs' = [tabs EXCEPT ![t] = [pc |-> "done", session |-> Null, read |-> <<>>]]
    /\ Silent
    /\ UNCHANGED <<lsSession, created, now>>
    /\ TabsOnly

TabsNext ==
    \/ \E t \in Tabs, g \in Games : TabStart(t, g)
    \/ \E t \in Tabs, status \in EndStatuses : TabEndReads(t, status)
    \/ \E t \in Tabs : TabEndWrites(t)
    \/ ClockTick(1)

TabsSpec == Init /\ [][TabsNext]_vars

\* ------------------------------------------------------- overlapping loads
\* The positions at which a loadGame invocation is suspended: the awaited
\* validation, the awaited script load, the readiness wait, the grace timer.
SuspendedAt == {"Validating", "Loading", "WaitingForReady", "Grace"}

\* loadGame starting a second invocation by cancelling the earlier ones.
loadGameCall_CancelsEarlier(g, i) ==
    /\ g \in registry
    /\ lpc[i] = "idle" /\ \A j \in Loads : j < i => lpc[j] # "idle"
    /\ \E j \in Loads : j < i /\ lpc[j] \in SuspendedAt
    /\ Quiescent
    /\ lgame' = [lgame EXCEPT ![i] = g]
    /\ lpc' = [j \in Loads |->
                 IF j = i THEN "Validating"
                 ELSE IF lpc[j] \in SuspendedAt THEN "Cancelled" ELSE lpc[j]]
    /\ Silent
    /\ UNCHANGED <<unitVars, scripts, selectedGameData, registry, menuGames, ui, currentGame,
                   currentGameInstance, winCurrent, ltimer, lerr, controls,
                   bundleVars, buttons, trackerVars, dispatchVars>>

\* loadGame(game) entered for the i-th time while an earlier invocation is
\* suspended: the method tests nothing before its first await; the earlier
\* invocation's position and game are left as they are.
loadGameCall(g, i) ==
    /\ g \in registry
    /\ lpc[i] = "idle" /\ \A j \in Loads : j < i => lpc[j] # "idle"
    /\ \E j \in Loads : j < i /\ lpc[j] \in SuspendedAt
    /\ Quiescent
    /\ lgame' = [lgame EXCEPT ![i] = g]
    /\ lpc' = [lpc EXCEPT ![i] = "Validating"]
    /\ Silent
    /\ UNCHANGED <<unitVars, scripts, selectedGameData, registry, menuGames, ui, currentGame,
                   currentGameInstance, winCurrent, ltimer, lerr, controls,
                   bundleVars, buttons, trackerVars, dispatchVars>>

OverlapNext ==
    \/ Constructor
    \/ \E g \in Games : registerGame(g)
    \/ showGameOptions
    \/ renderInitialUI
    \/ \E g \in Games, i \in Loads : loadGame(g, i)
    \/ \E g \in Games, i \in Loads : loadGameCall(g, i)
    \/ \E i \in Loads : ValidationFails(i)
    \/ \E i \in Loads : ValidationPasses(i)
    \/ \E i \in Loads : ScriptOnload(i)
    \/ \E i \in Loads : ScriptOnerror(i)
    \/ \E g \in Games : BundleExposesOnWindow(g)
    \/ \E g \in Games : BundleExposesInInstances(g)
    \/ \E g \in Games : ReadyEvent(g)
    \/ \E i \in Loads : FallbackTimeout(i)
    \/ \E i \in Loads : AfterReady(i)
    \/ \E i \in Loads : addGameControls(i)

OverlapSpec == Init /\ [][OverlapNext]_vars

\* ================================================================== claims
Shown(S) == [a \in Actions |-> a \in S]
Count(seq, x) == Cardinality({k \in 1..Len(seq) : seq[k] = x})
AllFive(h) == \A a \in Actions : Callable(h, a)
StartPending == \E on \in {"settles", "hangs"} : Suspended(Await("post", on))

\* C1: when validation reports the game not loadable, the validation error is
\* shown and nothing else has changed: no manifest script was injected, neither
\* the handle nor its global publication is set, no control surface exists, and
\* the descriptor has not become the current game (menu and hub flow alike).
C1_ValidationFailureChangesNothing ==
    \A i \in Loads :
        lpc[i] = "ValidationFailed" =>
            /\ ui = "validationError"
            /\ scripts = <<>>
            /\ currentGameInstance = NoHandle
            /\ winCurrent = NoHandle
            /\ controls = 0
            /\ currentGame = NoGame

\* C2: when the manifest script fails to load, the load ends with the error
\* naming the game and the load-failure UI; from then on that load stays
\* failed: its readiness wait is never started, it re-discovers no handle, it
\* adds no control surface and injects no further script (no retry).
C2_LoadFailureIsTerminal ==
    [][\A i \in Loads :
          /\ ScriptOnerror(i) =>
                /\ lpc'[i] = "LoadFailed"
                /\ lerr'[i] = lgame[i] /\ lgame[i] \in Games
                /\ ui' = "loadError"
                /\ ltimer'[i] = "unset"
          /\ lpc[i] = "LoadFailed" =>
                /\ lpc'[i] = "LoadFailed"
                /\ ltimer'[i] = "unset"
                /\ lerr'[i] = lerr[i]
                /\ currentGameInstance' = currentGameInstance
                /\ winCurrent' = winCurrent
                /\ controls' = 0
                /\ scripts' = scripts
                /\ ui' = "loadError"]_vars

C2_Witness ==
    \E i \in Loads :
        /\ lpc[i] = "LoadFailed" /\ lerr[i] = lgame[i] /\ lgame[i] \in Games
        /\ ui = "loadError" /\ controls = 0 /\ Len(scripts) = 1

\* C3: once the 5 s fallback timer of a readiness wait has fired, the wait is
\* over, whatever the page's global object holds.
C3_FallbackEndsTheWait ==
    \A i \in Loads : ltimer[i] = "fired" => lpc[i] # "WaitingForReady"

\* C4: when the control surface is rendered all five buttons exist, the start
\* button is displayed and pause, resume, restart and end are hidden.
C4_OnlyStartShownAtRender ==
    [][\A i \in Loads :
          addGameControls(i) /\ controls' = 1 => buttons' = Shown({"start"})]_vars

\* C5: with a handle that implements all five operations and none failing:
\* after start only pause, restart and end are displayed; after pause, pause is
\* hidden and resume displayed; after resume, resume is hidden and pause
\* displayed; after end only start is displayed.
C5_ButtonsFollowTheAction ==
    [][/\ \A t \in Awaits :
            StartSettles(t, "ok") /\ AllFive(currentGameInstance) =>
                buttons' = Shown({"pause", "restart", "end"})
       /\ DispatchPause("ok") /\ AllFive(currentGameInstance) =>
                ~buttons'["pause"] /\ buttons'["resume"]
       /\ DispatchResume("ok") /\ AllFive(currentGameInstance) =>
                ~buttons'["resume"] /\ buttons'["pause"]
       /\ \A t \in Awaits :
            EndSettles(t, "ok") /\ AllFive(currentGameInstance) =>
                buttons' = Shown({"start"})]_vars

C5_Witness ==
    /\ AllFive(currentGameInstance)
    /\ buttons = Shown({"resume", "restart", "end"})
    /\ currentSession.status = "paused"
    /\ inflight = EmptyBag

\* C6: for every action, when the handle's method throws or rejects, the
\* button transition of that action is applied all the same.
C6_FailureStillMovesButtons ==
    [][/\ \A t \in Awaits :
            StartSettles(t, "throw") => buttons' = Shown({"pause", "restart", "end"})
       /\ DispatchPause("throw") /\ Callable(currentGameInstance, "pause") =>
                ~buttons'["pause"] /\ buttons'["resume"]
       /\ DispatchResume("throw") /\ Callable(currentGameInstance, "resume") =>
                ~buttons'["resume"] /\ buttons'["pause"]
       /\ \A t \in Awaits :
            RestartSettles(t, "throw") \/ RestartStartSettles(t, "throw") =>
                buttons' = Shown({"pause", "restart", "end"})
       /\ \A t \in Awaits :
            EndSettles(t, "throw") => buttons' = Shown({"start"})]_vars

\* C7: every dispatch drives the Session Tracker: after a start dispatch there
\* is an active session for the current game, after a pause dispatch the
\* session is paused, after a resume dispatch it is active, after an end
\* dispatch there is no current session and the ended one is the newest entry
\* of the history, completed.
C7_DispatchDrivesTheTracker ==
    [][/\ DispatchStart =>
            currentSession'.status = "active" /\ currentSession'.gameId = currentGame
       /\ (\E r \in Results : DispatchPause(r)) => currentSession'.status = "paused"
       /\ (\E r \in Results : DispatchResume(r)) => currentSession'.status = "active"
       /\ DispatchEnd =>
            /\ currentSession' = NoSession
            /\ currentSession # NoSession =>
                  /\ history' # <<>>
                  /\ history'[Len(history')] = [currentSession EXCEPT !.status = "completed"]]_vars

\* C8: a start dispatch posts exactly one game_play_start event and an end
\* dispatch exactly one game_play_end event, whatever the tracker posts.
C8_OneEventPerStartAndEnd ==
    [][/\ DispatchStart => Count(posted', "game_play_start") = 1
       /\ DispatchEnd => Count(posted', "game_play_end") = 1]_vars

\* C9: the game_play_start POST never blocks the start: a start dispatch that
\* has issued it always gets past it (to the handle's start and the started
\* buttons), also when the POST never completes.
C9_StartGetsPastThePost ==
    StartPending ~> ~StartPending

\* C10: discovery is first match wins: with window[<name>Game] set that handle
\* is the one found, gameInstances[<name>] or not; otherwise the one of
\* gameInstances[<name>]; the synthetic handle exactly when neither is set.
C10_DiscoveryFirstMatchWins ==
    [][\A i \in Loads :
          ValidationPasses(i) \/ AfterReady(i) =>
              /\ winGame[lgame[i]] => currentGameInstance' = WindowHandle(lgame[i])
              /\ ~winGame[lgame[i]] /\ gameInstances[lgame[i]] =>
                    currentGameInstance' = InstancesHandle(lgame[i])
              /\ currentGameInstance'.kind = "mock" <=>
                    ~winGame[lgame[i]] /\ ~gameInstances[lgame[i]]
              /\ winCurrent' = currentGameInstance']_vars

C10_Witness ==
    \E i \in Loads :
        /\ lpc[i] = "Grace"
        /\ winGame[lgame[i]] /\ gameInstances[lgame[i]]
        /\ currentGameInstance = WindowHandle(lgame[i])

\* The error entries of the failing rules of rs from rule k on, in rule order.
RECURSIVE FailureEntries(_, _)
FailureEntries(rs, k) ==
    IF k > Len(rs) THEN <<>>
    ELSE IF rs[k] = "fail" THEN <<RuleError(k, "message")>> \o FailureEntries(rs, k + 1)
    ELSE FailureEntries(rs, k + 1)

Throwing(o) == o \in {"throw", "throwNothing"}

\* C11: a synthetic handle has start, pause, resume, restart and end, all
\* callable, and a call of any of them never throws or rejects, whatever the
\* network does.
C11_SyntheticHandleNeverFails ==
    /\ currentGameInstance.kind = "mock" => AllFive(currentGameInstance)
    /\ callResult # NoCall => callResult.outcome = "ok"

\* C12: for rules that resolve true or false, validateGame resolves with
\* valid = true exactly when no rule resolved false (so with no rule: valid,
\* no error), and the errors are one entry per failing rule in attachment
\* order.
C12_ValidExactlyWhenNoRuleFails ==
    validation # NoValidation /\ (\A k \in 1..Len(rules) : rules[k] \in {"pass", "fail"}) =>
        /\ validation.settled = "resolved"
        /\ validation.valid <=> \A k \in 1..Len(rules) : rules[k] = "pass"
        /\ validation.errors = FailureEntries(rules, 1)
        /\ rules = <<>> => validation.valid /\ validation.errors = <<>>

C12_Witness ==
    /\ validation # NoValidation
    /\ Len(rules) = 3 /\ rules[1] = "fail" /\ rules[2] = "pass" /\ rules[3] = "fail"
    /\ ~validation.valid
    /\ validation.errors = <<RuleError(1, "message"), RuleError(3, "message")>>

\* C13: with a throwing rule validateGame still resolves, with valid = false,
\* the throwing rule contributes exactly one error entry (the list has one
\* entry per rule that did not resolve true) and every rule was invoked.
C13_ThrowingRuleIsOneErrorAndLoopGoesOn ==
    validation # NoValidation =>
        /\ validation.settled = "resolved"
        /\ (\E k \in 1..Len(rules) : Throwing(rules[k])) => ~validation.valid
        /\ Len(validation.errors) = Cardinality({k \in 1..Len(rules) : rules[k] # "pass"})
        /\ validation.invoked = 1..Len(rules)

\* C14: the connectivity rule of a new descriptor resolves true whatever the
\* outcome of the requests it makes.
C14_ConnectivityRuleAlwaysPasses ==
    [][\A build \in Builds, supported \in BOOLEAN, head \in NetOutcomes,
          fallback \in NetOutcomes :
          Game(build, supported, head, fallback) => rules'[2] = "pass"]_vars

NoDuplicateNames ==
    \A j, k \in 1..Len(getAllGames) :
        getAllGames[j].name = getAllGames[k].name => j = k

\* C15: after every registerGame the descriptor just registered is the one
\* getGame returns for its name (a descriptor registered earlier under that
\* name is replaced), after every unregisterGame getGame returns undefined for
\* that name, the other names are not affected, and getAllGames never holds
\* two descriptors of one name.
C15_RegistryKeepsLatestPerName ==
    [][\A name \in Games :
          /\ RegistryRegisters(name) =>
                /\ getGame(name)' = descriptors + 1
                /\ \A o \in Games \ {name} : getGame(o)' = getGame(o)
                /\ getGameCount' = IF getGame(name) = Undefined
                                   THEN getGameCount + 1 ELSE getGameCount
                /\ NoDuplicateNames'
          /\ RegistryUnregisters(name) =>
                /\ getGame(name)' = Undefined
                /\ \A o \in Games \ {name} : getGame(o)' = getGame(o)
                /\ NoDuplicateNames']_vars

\* A descriptor constructed after the one of the second name sits at the
\* first name's (older) position: it has replaced an earlier descriptor.
C15_Witness ==
    /\ getGameCount = 2
    /\ getAllGames[1].inst > getAllGames[2].inst
    /\ getGame(getAllGames[1].name) = getAllGames[1].inst

NothingLoading == \A i \in Loads : lpc[i] = "idle"

StatusOf(id) ==
    IF sm # Null /\ sm.sessionId = id THEN sm.status
    ELSE IF \E k \in 1..Len(lsHistory) : lsHistory[k].sessionId = id
         THEN lsHistory[CHOOSE k \in 1..Len(lsHistory) :
                           /\ lsHistory[k].sessionId = id
                           /\ \A j \in k + 1..Len(lsHistory) :
                                 lsHistory[j].sessionId # id].status
         ELSE "none"

StatusMoves ==
    {<<"active", "paused">>, <<"paused", "active">>}
    \cup ({"active", "paused"} \X EndStatuses)

EndEvents(s) == {k \in 1..Len(s.events) : s.events[k].type = "end"}

\* C17: the status of a session only moves active -> paused, paused ->
\* active and {active, paused} -> {completed, abandoned}; a completed or
\* abandoned session never changes status again.
C17_StatusOnlyMovesForward ==
    [][\A id \in 1..MaxOps :
          StatusOf(id) # "none" /\ StatusOf(id)' # "none"
          /\ StatusOf(id)' # StatusOf(id) =>
              <<StatusOf(id), StatusOf(id)'>> \in StatusMoves]_vars

\* C18: endSession(s) on a current session stores it with status s, duration
\* floor((endTime - startTime) / 1000) >= 0 and exactly one end event, the
\* last, and leaves no current session; a session gets its duration only
\* there, and only once.
C18_EndFinalizesOnce ==
    [][/\ \A status \in EndStatuses :
            TrackerEnd(status) /\ sm # Null =>
                LET e == lsHistory'[Len(lsHistory')]
                IN  /\ Len(lsHistory') = Len(lsHistory) + 1
                    /\ e.sessionId = sm.sessionId
                    /\ e.status = status
                    /\ e.endTime = Ms(now) /\ e.startTime = sm.startTime
                    /\ e.duration * 1000 <= e.endTime - e.startTime
                    /\ e.endTime - e.startTime < (e.duration + 1) * 1000
                    /\ e.duration >= 0
                    /\ EndEvents(e) = {Len(e.events)}
                    /\ Len(e.events) = Len(sm.events) + 1
                    /\ sm' = Null
                    /\ \A k \in 1..Len(lsHistory) :
                          lsHistory[k].sessionId # sm.sessionId
       /\ sm' # Null => sm'.duration = 0]_vars

\* C19: updateScore(points, isCorrect) on a current session adds points to
\* score, makes maxScore the larger of the old maxScore and the new score,
\* adds one attempt, on a correct answer adds one to streak and to
\* correctAnswers, on an incorrect one resets streak and keeps correctAnswers,
\* and appends one correct/incorrect event carrying points; so startSession,
\* updateScore(10, true), updateScore(5, false) ends with score 15, streak 0,
\* attempts 2, correctAnswers 1.
C19_UpdateScoreArithmetic ==
    [][/\ \A points \in Points, isCorrect \in BOOLEAN :
            TrackerUpdateScore(points, isCorrect) /\ sm # Null =>
                /\ sm'.score = sm.score + points
                /\ sm'.maxScore = Max(sm.maxScore, sm.score + points)
                /\ sm'.attempts = sm.attempts + 1
                /\ sm'.streak = IF isCorrect THEN sm.streak + 1 ELSE 0
                /\ sm'.correctAnswers = sm.correctAnswers + IF isCorrect THEN 1 ELSE 0
                /\ Len(sm'.events) = Len(sm.events) + 1
                /\ SubSeq(sm'.events, 1, Len(sm.events)) = sm.events
                /\ sm'.events[Len(sm'.events)].type
                      = IF isCorrect THEN "correct" ELSE "incorrect"
                /\ sm'.events[Len(sm'.events)].data = points
                /\ sm'.status = sm.status
       /\ sm' # Null /\ Len(sm'.events) = 3
          /\ sm'.events[2].type = "correct" /\ sm'.events[2].data = 10
          /\ sm'.events[3].type = "incorrect" /\ sm'.events[3].data = 5 =>
              /\ sm'.score = 15 /\ sm'.streak = 0
              /\ sm'.attempts = 2 /\ sm'.correctAnswers = 1]_vars

C19_Witness ==
    /\ sm # Null /\ Len(sm.events) = 3
    /\ sm.events[1].type = "start"
    /\ sm.events[2].type = "correct" /\ sm.events[2].data = 10
    /\ sm.events[3].type = "incorrect" /\ sm.events[3].data = 5
    /\ sm.score = 15 /\ sm.streak = 0 /\ sm.attempts = 2 /\ sm.correctAnswers = 1
    /\ lsSession = sm

\* Sessions ended so far by the history component.
EndedCount == sessCount - IF currentSession = NoSession THEN 0 ELSE 1

\* C20: the stored history never holds more than 200 entries, and it holds
\* the most recently ended sessions, up to 200 of them, in the order they
\* ended (the oldest are evicted first).
C20_HistoryKeepsLast200 ==
    /\ Len(history) <= HistoryCap
    /\ Len(history) = IF EndedCount > HistoryCap THEN HistoryCap ELSE EndedCount
    /\ \A k \in 1..Len(history) :
          /\ history[k].sessionId = EndedCount - Len(history) + k
          /\ history[k].status = "completed"

C20_Witness ==
    /\ EndedCount = HistoryCap + 5
    /\ Len(history) = HistoryCap
    /\ history[1].sessionId = 6
    /\ history[HistoryCap].sessionId = HistoryCap + 5

\* The entries of h with the given status, and sums over h by position.
WithStatus(h, status) == {k \in 1..Len(h) : h[k].status = status}

ScoreUpTo(h) ==
    LET f[n \in 0..Len(h)] == IF n = 0 THEN 0 ELSE f[n - 1] + h[n].score
    IN  f[Len(h)]

DurationUpTo(h) ==
    LET f[n \in 0..Len(h)] == IF n = 0 THEN 0 ELSE f[n - 1] + h[n].duration
    IN  f[Len(h)]

\* C21: getUserStats reports, of the stored history: total = its length;
\* completed, abandoned, paused = the entries with that status; totalScore =
\* the sum of score; avgScore = totalScore / total, 0 for an empty history;
\* bestStreak = the largest stored streak; totalPlayTime = the sum of
\* duration; recent = the last min(5, total) entries, the most recent first.
C21_StatsDerivedFromHistory ==
    [][CallGetUserStats =>
        LET h == lsHistory
            r == stats'
        IN  /\ r.total = Len(h)
            /\ r.completed = Cardinality(WithStatus(h, "completed"))
            /\ r.abandoned = Cardinality(WithStatus(h, "abandoned"))
            /\ r.paused = Cardinality(WithStatus(h, "paused"))
            /\ r.totalScore = ScoreUpTo(h)
            /\ IF Len(h) = 0 THEN r.avgScore.num = 0
               ELSE r.avgScore.num * Len(h) = ScoreUpTo(h) * r.avgScore.den
            /\ r.avgScore.den # 0
            /\ \A k \in 1..Len(h) : h[k].streak <= r.bestStreak
            /\ r.bestStreak = 0 \/ \E k \in 1..Len(h) : h[k].streak = r.bestStreak
            /\ r.totalPlayTime = DurationUpTo(h)
            /\ Len(r.recent) = IF Len(h) < 5 THEN Len(h) ELSE 5
            /\ \A j \in 1..Len(r.recent) : r.recent[j] = h[Len(h) + 1 - j]
            /\ lsHistory' = lsHistory]_vars

\* Three finished sessions with scores 10, 20, 30: total 3, totalScore 60,
\* avgScore 20, recent = all three, the latest first.
C21_Witness ==
    /\ Len(lsHistory) = 3
    /\ lsHistory[1].score = 10 /\ lsHistory[2].score = 20 /\ lsHistory[3].score = 30
    /\ stats # NoStats
    /\ stats.total = 3 /\ stats.totalScore = 60
    /\ stats.avgScore.num = 20 * stats.avgScore.den
    /\ Len(stats.recent) = 3
    /\ stats.recent[1].sessionId = 3 /\ stats.recent[2].sessionId = 2
    /\ stats.recent[3].sessionId = 1

\* How long ago, in milliseconds, the stored in-flight session started.
StoredAge == Ms(now) - lsSession.startTime

\* C22: a tracker under construction adopts the stored in-flight session as
\* its current session only if that session started less than 24 hours ago;
\* with a stored session of 24 hours or more, or none, it has no current
\* session.
C22_AdoptsOnlyWithinADay ==
    [][TrackerConstruct =>
        /\ sm' # Null =>
              /\ lsSession # Null /\ sm' = lsSession
              /\ StoredAge < 24 * 60 * 60 * 1000
        /\ lsSession # Null /\ StoredAge < 24 * 60 * 60 * 1000 => sm' = lsSession
        /\ lsSession' = lsSession]_vars

\* A session that was started, never ended and is 24 hours old or older, and
\* a tracker without a current session.
C22_Witness ==
    /\ lsSession # Null /\ lsHistory = <<>>
    /\ StoredAge >= 24 * 60 * 60 * 1000
    /\ sm = Null

Last(q) == q[Len(q)]

\* C23: two successive Bundle Loader calls, for the same game or for
\* different ones, request URLs whose t values differ.
C23_SuccessiveLoadsDifferInT ==
    [][\A game \in Descriptors :
          LoaderLoad(game) /\ requested # <<>> =>
              Last(requested').t # Last(requested).t]_vars

\* C30: the URL requested for a descriptor is that descriptor's
\* baseUrl/name/load-app-scripts.js?t=<timestamp>, also for a descriptor
\* synthesized from hub metadata.
C30_UrlFromDescriptorBaseAndName ==
    [][\A game \in Descriptors :
          LoaderLoad(game) =>
              /\ Last(requested').path = game.baseUrl \o <<game.name, ManifestFile>>
              /\ Last(requested').t = Ms(now)]_vars

\* The order of the positions of one loadGame invocation.
StepOrder ==
    { <<"idle", "Validating">>, <<"Validating", "ValidationFailed">>,
      <<"Validating", "Loading">>, <<"Loading", "LoadFailed">>,
      <<"Loading", "WaitingForReady">>, <<"WaitingForReady", "Resumed">>,
      <<"Resumed", "Grace">>, <<"Grace", "Ready">>, <<"Grace", "NoControls">> }

\* C24: a loadGame invocation goes through its steps in one order: the
\* validation completes; the descriptor is stored, the initial handle
\* published, the loading UI shown and the script injected; after onload the
\* readiness wait; then the re-discovery; then mount polling and the grace
\* timer; last the control buttons.  No script is injected before a handle
\* is published, and no buttons are rendered before the re-discovery.
C24_LoadStepsInOrder ==
    [][\A i \in Loads :
          /\ lpc'[i] # lpc[i] => <<lpc[i], lpc'[i]>> \in StepOrder
          /\ lpc'[i] # lpc[i] /\ lpc'[i] = "Loading" =>
                /\ currentGame' = lgame[i]
                /\ winCurrent' # NoHandle /\ winCurrent' = currentGameInstance'
                /\ ui' = "loading"
                /\ scripts' = Append(scripts, lgame[i])
          /\ scripts' # scripts =>
                \E j \in Loads : lpc[j] = "Validating" /\ lpc'[j] = "Loading"
          /\ Len(scripts') > 0 => winCurrent' # NoHandle
          /\ lpc'[i] # lpc[i] /\ lpc'[i] = "Grace" =>
                /\ currentGameInstance' = FindGameInstance(lgame[i], i, 2)
                   \/ currentGameInstance' = currentGameInstance
                /\ controls' = controls
          /\ controls' # controls =>
                \E j \in Loads : lpc[j] = "Grace" /\ lpc'[j] = "Ready"]_vars

\* An invocation that went through every step: its buttons are rendered.
C24_Witness ==
    /\ lpc[1] = "Ready" /\ controls = 1
    /\ scripts = <<lgame[1]>>
    /\ winCurrent # NoHandle /\ ltimer[1] = "unset"

\* The bundle of game g has exposed a handle of its own.
Exposed(g) == winGame[g] \/ gameInstances[g]

C26_LoadEndsInOneOutcome ==
    /\ \A i \in Loads :
          lpc[i] = "Validating" ~> lpc[i] \in {"ValidationFailed", "LoadFailed", "Ready"}
    /\ \A i \in Loads :
          lpc[i] = "WaitingForReady" ~> lpc[i] = "Ready"

\* The button display of the started state.
StartedDisplay == [a \in Actions |-> a \in {"pause", "restart", "end"}]

\* C27: a restart dispatch calls the handle's restart, and nothing else, if
\* it is callable; otherwise it calls end (when callable), waits for it, and
\* then calls start; either way the buttons end in the started state.
C27_RestartOrFallback ==
    [][/\ DispatchRestart =>
            LET h == currentGameInstance
                first == IF Callable(h, "restart") THEN "restart"
                         ELSE IF Callable(h, "end") THEN "restartEnd"
                         ELSE "restartStart"
            IN  inflight' = inflight (+) SetToBag({Await(first, CalleeKind(h))})
       /\ \A t \in Awaits, r \in Results :
            RestartEndSettles(t, r) =>
                \E u \in Awaits :
                    u.at = "restartStart" /\ inflight' = (inflight (-) SetToBag({t})) (+) SetToBag({u})
       /\ \A t \in Awaits, r \in Results :
            RestartSettles(t, r) \/ RestartStartSettles(t, r) =>
                buttons' = StartedDisplay /\ inflight' = inflight (-) SetToBag({t})]_vars

\* C28: endSession on a current session finalizes it, issues one POST whose
\* body is the finalized session, appends that session to the stored
\* history and clears the current session, each once; the POST settling,
\* with a failure or not, changes neither the history nor the cleared
\* session.
C28_EndSessionStepsOnce ==
    [][/\ \A status \in EndStatuses :
            TrackerEnd(status) /\ sm # Null =>
                LET f == [sm EXCEPT !.endTime = Ms(now), !.status = status,
                                    !.duration = (Ms(now) - sm.startTime) \div 1000,
                                    !.events = sm.events \o
                                        <<[type |-> "end", timestamp |-> Ms(now),
                                           data |-> status]>>]
                IN  /\ posted' = <<f>>
                    /\ BagCardinality(inflight') = BagCardinality(inflight) + 1
                    /\ Len(lsHistory') = Len(lsHistory) + 1
                    /\ lsHistory'[Len(lsHistory')] = f
                    /\ SubSeq(lsHistory', 1, Len(lsHistory)) = lsHistory
                    /\ sm' = Null
       /\ \A status \in EndStatuses :
            TrackerEnd(status) /\ sm = Null =>
                posted' = <<>> /\ lsHistory' = lsHistory /\ inflight' = inflight
       /\ \A net \in NetOutcomes :
            SendToServerSettles(net) =>
                /\ sm' = sm /\ lsHistory' = lsHistory /\ lsSession' = lsSession
                /\ posted' = <<>>]_vars

\* Right after endSession: no current session, the finalized session is the
\* newest history entry and the body of the POST in flight.
C28_Witness ==
    /\ sm = Null /\ lsHistory # <<>>
    /\ posted = <<lsHistory[Len(lsHistory)]>>
    /\ lsHistory[Len(lsHistory)].status \in EndStatuses
    /\ BagIn(SessionPost, inflight)

\* The event list the tracker and the stored history give session id: that
\* of the current session, else that of its newest history entry.
EventsOf(id) ==
    IF sm # Null /\ sm.sessionId = id THEN sm.events
    ELSE IF \E k \in 1..Len(lsHistory) : lsHistory[k].sessionId = id
         THEN lsHistory[CHOOSE k \in 1..Len(lsHistory) :
                           /\ lsHistory[k].sessionId = id
                           /\ \A j \in k + 1..Len(lsHistory) :
                                 lsHistory[j].sessionId # id].events
         ELSE <<>>

IsPrefix(p, q) == Len(p) <= Len(q) /\ SubSeq(q, 1, Len(p)) = p

\* An event list in good order: start first, timestamps never decreasing,
\* an end event only in the last place.
WellOrdered(e) ==
    /\ e # <<>> => e[1].type = "start"
    /\ \A k \in 1..Len(e) - 1 : e[k].timestamp <= e[k + 1].timestamp
    /\ \A k \in 1..Len(e) : e[k].type = "end" => k = Len(e)

\* C29: the event list of a session only grows at its end (no operation
\* removes or rewrites an event), its timestamps never decrease along the
\* list, its first event is the start event, and an end event, if there is
\* one, is the last.
C29_EventsAppendOnly ==
    [][\A id \in 1..MaxOps :
          /\ EventsOf(id)' # <<>> => IsPrefix(EventsOf(id), EventsOf(id)')
          /\ WellOrdered(EventsOf(id)')]_vars

\* The entries of the stored history that record session id.
EntriesOf(id) == {k \in 1..Len(lsHistory) : lsHistory[k].sessionId = id}

\* C33: an ended session is not revived: once endSession has run, the stored
\* in-flight item does not hold the ended session, and a tracker constructed
\* afterwards has no current session that is already in the history.
C33_EndedSessionStaysEnded ==
    /\ lsSession # Null => EntriesOf(lsSession.sessionId) = {}
    /\ sm # Null => EntriesOf(sm.sessionId) = {}

\* C34: no two entries of the stored history have the same sessionId.
C34_HistoryIdsDistinct ==
    \A id \in 1..MaxOps : Cardinality(EntriesOf(id)) <= 1

\* C35: every session startSession has created is the current session or is
\* in the stored history.
C35_NoStartedSessionDropped ==
    \A id \in 1..created :
        (sm # Null /\ sm.sessionId = id) \/ EntriesOf(id) # {}

\* The events of the given type in the current session's list.
EventsOfType(type) == {k \in 1..Len(sm.events) : sm.events[k].type = type}

\* C40: for the current session, after startSession and any updateScore,
\* pauseSession and resumeSession calls: attempts is the number of correct
\* and incorrect events, correctAnswers the number of correct events,
\* 0 <= streak <= correctAnswers <= attempts, maxScore >= score and
\* maxScore >= 0.
C40_CountersAgreeWithEvents ==
    sm # Null =>
        /\ sm.attempts = Cardinality(EventsOfType("correct"))
                         + Cardinality(EventsOfType("incorrect"))
        /\ sm.correctAnswers = Cardinality(EventsOfType("correct"))
        /\ 0 <= sm.streak /\ sm.streak <= sm.correctAnswers
        /\ sm.correctAnswers <= sm.attempts
        /\ sm.maxScore >= sm.score /\ sm.maxScore >= 0

\* Points were won and lost, the session was paused: score below maxScore,
\* a streak shorter than the correct answers, fewer of those than attempts.
C40_Witness ==
    /\ sm # Null /\ sm.status = "paused"
    /\ sm.attempts = 3 /\ sm.correctAnswers = 2 /\ sm.streak = 1
    /\ sm.score < sm.maxScore

\* C32: two tabs of one user that end their sessions can lose one: each
\* writes back the history it read plus its own session, so a tab that read
\* before the other wrote erases the other's entry; a state is reachable in
\* which both sessions were ended and the stored history holds one of them.
C32_TabsWriteBackWhatTheyRead ==
    [][\A t \in Tabs :
          TabEndWrites(t) =>
              /\ lsHistory' = Append(tabs[t].read, tabs[t].session)
              /\ \A k \in 1..Len(lsHistory) :
                    (\A j \in 1..Len(tabs[t].read) : tabs[t].read[j] # lsHistory[k]) =>
                        \A j \in 1..Len(lsHistory') : lsHistory'[j] # lsHistory[k]]_vars

\* Both tabs have ended their session; the stored history has one entry.
C32_Witness ==
    /\ \A t \in Tabs : tabs[t].pc = "done"
    /\ Len(lsHistory) = 1

\* C36: with the buttons rendered, their display agrees with the tracker:
\* while Pause is displayed the current session, if there is one, is active;
\* while Resume is displayed the current session, if there is one, is paused.
C36_ButtonsAgreeWithTracker ==
    controls >= 1 =>
        /\ buttons["pause"] /\ currentSession # NoSession =>
              currentSession.status = "active"
        /\ buttons["resume"] /\ currentSession # NoSession =>
              currentSession.status = "paused"

\* A click on a control button is being dispatched.
DispatchStep ==
    \/ DispatchStart
    \/ \E r \in Results : DispatchPause(r) \/ DispatchResume(r)
    \/ DispatchRestart
    \/ DispatchEnd

\* C37: dispatches do not interleave: no click is processed while an earlier
\* handleGameAction is suspended, so a second Start click made before the
\* first has finished starts no second session.
C37_DispatchesDoNotInterleave ==
    [][/\ DispatchStep => inflight = EmptyBag
       /\ DispatchStart /\ inflight # EmptyBag => sessCount' = sessCount]_vars

\* C38: with no handle exposed by the bundle, the re-discovery leaves the
\* published handle as it is: the synthetic handle published before the
\* script was injected stays the orchestrator's handle.
C38_SyntheticHandleKept ==
    [][\A i \in Loads :
          AfterReady(i) /\ ~Exposed(lgame[i]) =>
              /\ winCurrent' = winCurrent
              /\ currentGameInstance' = currentGameInstance]_vars

\* C31: loadGame has no in-flight guard.  A second invocation entered while
\* an earlier one is suspended starts its validation and leaves the earlier
\* one where it is; from then on each invocation moves only along its own
\* steps (none is cancelled), each one that passes validation overwrites the
\* shared descriptor and the published handle with its own game's, and each
\* one whose grace timer finds the mount point renders one more set of
\* control buttons.
C31_NoInFlightGuard ==
    [][\A i \in Loads :
          /\ lpc'[i] # lpc[i] => <<lpc[i], lpc'[i]>> \in StepOrder
          /\ lpc[i] # "idle" => lgame'[i] = lgame[i]
          /\ lpc[i] = "Validating" /\ lpc'[i] = "Loading" =>
                /\ currentGame' = lgame[i]
                /\ currentGameInstance'.game = lgame[i]
                /\ winCurrent' = currentGameInstance'
          /\ lpc[i] = "Grace" /\ lpc'[i] # "Grace" =>
                IF ui = "loading"
                THEN lpc'[i] = "Ready" /\ controls' = controls + 1
                ELSE lpc'[i] = "NoControls" /\ controls' = controls]_vars

\* Two invocations for different games, the second entered while the first
\* was suspended, have both rendered their buttons.
C31_Witness ==
    /\ lpc[1] = "Ready" /\ lpc[2] = "Ready"
    /\ lgame[1] # lgame[2]
    /\ controls = 2

\* C39: whenever control buttons can be clicked, the current handle is one
\* discovered for the current descriptor: both refer to the same game, also
\* after overlapping loadGame invocations.
C39_HandleMatchesDescriptor ==
    controls >= 1 => currentGameInstance.game = currentGame
====
